---- MODULE Spec2Model ----
(***************************************************************************)
(* A model of the optopia option parser (src/optopia.go): the option       *)
(* registry (Options.Add, Options.Reset) and the argument scanner          *)
(* (Options.Parse) with its value coercion and callback dispatch.          *)
(*                                                                         *)
(* A Go string is modelled as the sequence of its bytes, each byte a       *)
(* one-character TLA+ string, so that prefix tests, slicing (name[:1],     *)
(* name[1:], name[2:]) and splitting on "=" are computed as the code       *)
(* computes them.                                                          *)
(***************************************************************************)
EXTENDS Integers, Sequences, FiniteSets, TLC

(***************************************************************************)
(* Bounds of the exploration.                                              *)
(***************************************************************************)
\* longest argument sequence handed to Parse
MaxArgs == 2
\* most options handed to one Add call
MaxAddOpts == 2
\* most Parse calls in one behaviour
MaxParses == 2

(***************************************************************************)
(* Strings.                                                                *)
(***************************************************************************)
EmptyStr == << >>

\* strings.HasPrefix(s, p)
HasPrefix(s, p) ==
    /\ Len(s) >= Len(p)
    /\ SubSeq(s, 1, Len(p)) = p

\* strings.TrimPrefix(s, p)
TrimPrefix(s, p) ==
    IF HasPrefix(s, p) THEN SubSeq(s, Len(p) + 1, Len(s)) ELSE s

\* the Go slice expression s[from:] (from counted from 0)
SliceFrom(s, from) == SubSeq(s, from + 1, Len(s))

\* the index (from 1) of the first "=" of s, 0 when there is none
RECURSIVE IndexEq(_, _)
IndexEq(s, i) ==
    IF i > Len(s) THEN 0
    ELSE IF s[i] = "=" THEN i
    ELSE IndexEq(s, i + 1)

\* strings.SplitN(s, "=", 2): one word when s holds no "=", else the parts
\* before and after the first "="
SplitN2(s) ==
    LET i == IndexEq(s, 1)
    IN  IF i = 0 THEN << s >>
        ELSE << SubSeq(s, 1, i - 1), SubSeq(s, i + 1, Len(s)) >>

(***************************************************************************)
(* strconv.                                                                *)
(***************************************************************************)
Digits == {"0", "1", "2", "3", "4", "5", "6", "7", "8", "9"}

DigitVal(c) ==
    CASE c = "0" -> 0 [] c = "1" -> 1 [] c = "2" -> 2 [] c = "3" -> 3
      [] c = "4" -> 4 [] c = "5" -> 5 [] c = "6" -> 6 [] c = "7" -> 7
      [] c = "8" -> 8 [] c = "9" -> 9

\* the value of a string of decimal digits
RECURSIVE DecVal(_)
DecVal(s) ==
    IF s = EmptyStr THEN 0
    ELSE 10 * DecVal(SubSeq(s, 1, Len(s) - 1)) + DigitVal(s[Len(s)])

\* s without its leading zeros
RECURSIVE StripZeros(_)
StripZeros(s) ==
    IF s # EmptyStr /\ s[1] = "0" THEN StripZeros(Tail(s)) ELSE s

\* the digits of 1<<31, the cutoff of strconv.ParseInt for bitSize 32
Cutoff32 == <<"2", "1", "4", "7", "4", "8", "3", "6", "4", "8">>

\* -1, 0 or 1 as the digit string a is below, equal to or above b (both
\* without leading zeros)
RECURSIVE CmpDigits(_, _)
CmpDigits(a, b) ==
    IF Len(a) # Len(b) THEN (IF Len(a) < Len(b) THEN 0 - 1 ELSE 1)
    ELSE IF a = EmptyStr THEN 0
    ELSE IF a[1] # b[1]
         THEN (IF DigitVal(a[1]) < DigitVal(b[1]) THEN 0 - 1 ELSE 1)
    ELSE CmpDigits(Tail(a), Tail(b))

\* strconv.ParseInt(s, 10, 32): [v |-> value returned, ok |-> no error].
\* A syntax error returns 0, a range error the nearest representable value.
ParseInt(s) ==
    LET neg    == s # EmptyStr /\ s[1] = "-"
        signed == s # EmptyStr /\ s[1] \in {"+", "-"}
        body   == IF signed THEN Tail(s) ELSE s
        maxInt == DecVal(SubSeq(Cutoff32, 1, 9)) * 10 + 7
    IN  IF body = EmptyStr \/ \E i \in 1..Len(body) : body[i] \notin Digits
        THEN [v |-> 0, ok |-> FALSE]
        ELSE LET c == CmpDigits(StripZeros(body), Cutoff32)
             IN  IF ~neg /\ c >= 0 THEN [v |-> maxInt, ok |-> FALSE]
                 ELSE IF neg /\ c > 0 THEN [v |-> (0 - maxInt) - 1, ok |-> FALSE]
                 ELSE IF neg /\ c = 0 THEN [v |-> (0 - maxInt) - 1, ok |-> TRUE]
                 ELSE [v |-> IF neg THEN 0 - DecVal(body) ELSE DecVal(body),
                       ok |-> TRUE]

\* strconv.ParseBool(s); an error returns false
ParseBool(s) ==
    IF s \in { <<"1">>, <<"t">>, <<"T">>, <<"T","R","U","E">>,
               <<"t","r","u","e">>, <<"T","r","u","e">> }
    THEN [v |-> TRUE, ok |-> TRUE]
    ELSE IF s \in { <<"0">>, <<"f">>, <<"F">>, <<"F","A","L","S","E">>,
                    <<"f","a","l","s","e">>, <<"F","a","l","s","e">> }
    THEN [v |-> FALSE, ok |-> TRUE]
    ELSE [v |-> FALSE, ok |-> FALSE]

\* the "yes"/"no" remapping Parse applies before strconv.ParseBool
BoolRemap(val) ==
    IF val \in { <<"y">>, <<"Y">>, <<"Y","E","S">>, <<"y","e","s">> }
    THEN <<"t","r","u","e">>
    ELSE IF val \in { <<"n">>, <<"N">>, <<"N","O">>, <<"n","o">> }
    THEN <<"f","a","l","s","e">>
    ELSE val

(***************************************************************************)
(* Errors.  A library error is mkErr(kind, detail); the kind is what       *)
(* err.Is tests.  A handler's error is whatever value the handler made.    *)
(***************************************************************************)
ErrNoSuchOption == "no such option"
ErrOptionRequiresValue == "option requires value"
ErrParsingValue == "failure parsing option value"
ErrDuplicateOption == "duplicate option"
ErrShortOptionTooLong == "short option too long"
ErrShortAndLongEmpty == "long and short options both empty"

LibraryKinds ==
    { ErrNoSuchOption, ErrOptionRequiresValue, ErrParsingValue,
      ErrDuplicateOption, ErrShortOptionTooLong, ErrShortAndLongEmpty }

NoErr == [kind |-> "nil", detail |-> EmptyStr]

mkErr(e, opt) == [kind |-> e, detail |-> opt]

(***************************************************************************)
(* The Option objects the caller owns.  Each names the fields the caller   *)
(* set before Add: Long, Short, HasValue, the type of its ValueReceiver    *)
(* and its Handle function.                                                *)
(***************************************************************************)
OptIds == {"oV", "oD", "oW", "oX", "oB", "oE", "oG", "oN"}

\* the nil *Option
Nil == "nil"

\* Option.Long
OptLong(o) ==
    CASE o = "oX" -> <<"n">>
      [] o = "oB" -> <<"n", "=", "y">>
      [] o = "oW" -> <<"w">>
      [] OTHER    -> EmptyStr

\* Option.Short
OptShort(o) ==
    CASE o = "oV" -> <<"v">>
      [] o = "oD" -> <<"-">>
      [] o = "oW" -> <<"-">>
      [] o = "oX" -> <<"x">>
      [] o = "oB" -> <<"b">>
      [] o = "oE" -> <<"=">>
      [] o = "oG" -> <<"0xD0", "0x93">>   \* U+0413: two bytes of UTF-8
      [] OTHER    -> EmptyStr

\* Option.HasValue as the caller set it
OptHasValue(o) == o \in {"oW", "oE"}

\* the dynamic type of Option.ValueReceiver ("nil" when there is none)
RecvKind(o) ==
    CASE o = "oX" -> "int"
      [] o = "oB" -> "bool"
      [] o = "oE" -> "string"
      [] OTHER    -> "nil"

\* Option.Handle: "nil", a handler that accepts every value, or the handler
\* that accepts even numbers only
HandleKind(o) ==
    CASE o = "oV" -> "accept"
      [] o = "oB" -> "accept"
      [] o = "oX" -> "even"
      [] OTHER    -> "nil"

\* what a receiver holds before any Parse: the caller's default
DestInit(o) ==
    CASE RecvKind(o) = "int"    -> 7
      [] RecvKind(o) = "bool"   -> TRUE
      [] RecvKind(o) = "string" -> <<"d">>
      [] OTHER                  -> "none"

\* the errors a handler makes
ErrEven == [kind |-> "even numbers only", detail |-> EmptyStr]
ErrAtoi == [kind |-> "strconv.Atoi", detail |-> EmptyStr]

\* opt.Handle(val): the error the handler returns
Handle(o, val) ==
    IF HandleKind(o) = "even"
    THEN LET r == ParseInt(val)
         IN  IF ~r.ok THEN ErrAtoi
             ELSE IF r.v % 2 # 0 THEN ErrEven
             ELSE NoErr
    ELSE NoErr

(***************************************************************************)
(* The arguments Parse is given: a first token that exercises one form of  *)
(* the scanner, followed by tokens from a smaller set.                     *)
(***************************************************************************)
HeadTokens ==
    { <<"-", "-">>,                       \* the terminator
      <<"-">>,                            \* a bare dash
      <<"4">>,                            \* a non-option
      <<"-", "v">>,                       \* a short option
      <<"-", "v", "v">>,                  \* a cluster
      <<"-", "v", "x">>,                  \* a cluster ending in a value option
      <<"-", "v", "-">>,                  \* a cluster holding a dash
      <<"-", "v", "-", "n">>,
      <<"-", "-", "v">>,
      <<"-", "z">>,                       \* no such short option
      <<"-", "-", "z">>,                  \* no such long option
      <<"-", "x">>,                       \* value in the next token
      <<"-", "-", "n">>,
      <<"-", "x", "4">>,                  \* inline values
      <<"-", "x", "=", "4">>,
      <<"-", "-", "n", "=", "4">>,
      <<"-", "-", "n", "=", "3">>,
      <<"-", "-", "n", "=", "y">>,
      <<"-", "-", "n", "=", "y", "=", "t">>,
      <<"-", "b", "y">>,
      <<"-", "b", "z">>,
      <<"-", "=", "q">> }

TailTokens ==
    { <<"-", "-">>, <<"-", "v">>, <<"4">>, <<"t">>, <<"-", "x", "3">> }

RECURSIVE TailSeqs(_)
TailSeqs(n) ==
    IF n = 0 THEN { << >> }
    ELSE LET shorter == TailSeqs(n - 1)
         IN  shorter \cup { <<t>> \o s : t \in TailTokens,
                                        s \in { x \in shorter : Len(x) = n - 1 } }

ArgSeqs ==
    { << >> } \cup { <<h>> \o s : h \in HeadTokens, s \in TailSeqs(MaxArgs - 1) }

\* the sequences of options one Add call is given
RECURSIVE OptSeqs(_)
OptSeqs(n) ==
    IF n = 0 THEN { << >> }
    ELSE LET shorter == OptSeqs(n - 1)
         IN  shorter \cup { <<o>> \o s : o \in OptIds,
                                        s \in { x \in shorter : Len(x) = n - 1 } }

(***************************************************************************)
(* State.                                                                  *)
(***************************************************************************)
VARIABLES
    Long,       \* Options.Long: long name -> option
    Short,      \* Options.Short: short name -> option
    hasValue,   \* Option.HasValue of each option
    seen,       \* Option.Seen of each option
    rawValue,   \* Option.RawValue of each option
    dest,       \* what each option's ValueReceiver points at
    addErr,     \* what the latest Add call returned, until Parse is called
    addLast,    \* the option the latest traced Add call reached last
    addBefore,  \* the two maps when that call's loop came to that option
    pc,         \* "idle", "scan" (inside Parse's loop), "done" (Parse
                \* returned) or "panic" (Parse ended in a run-time panic)
    argv,       \* the array behind the slice the caller gave Parse
    pos,        \* how many elements of argv the local slice args is past
    ret,        \* what Parse returned: the residual (args, nil) and the error
    arg,        \* Parse's local arg: the token the latest loop turn read
    opt,        \* Parse's local opt: the option the latest loop turn matched
    turns,      \* the loop turns of the current Parse call that read a token
    start,      \* pos when the latest loop turn read its token
    calls,      \* the handler calls of the current Parse call, in order
    parses,     \* the number of Parse calls so far
    argvIn,     \* the content of the argument sequence when Parse was called
    pre,        \* seen, rawValue and dest when Parse was called
    last,       \* seen and rawValue when the latest Parse call returned
    prev,       \* the outcome of the Parse call before the current one
    mode,       \* how the current Parse call got its arguments
    resetSince  \* Reset was the one operation since the latest Parse call

vars == << Long, Short, hasValue, seen, rawValue, dest, addErr, addLast,
           addBefore, pc, argv, pos,
           ret, arg, opt, turns, start, calls, parses, argvIn, pre, last, prev, mode, resetSince >>

\* a Go map lookup: Nil for a missing key
Lookup(m, k) == IF k \in DOMAIN m THEN m[k] ELSE Nil

\* m[k] = o
Insert(m, k, o) == [x \in DOMAIN m \cup {k} |-> IF x = k THEN o ELSE m[x]]

NoRet == [args |-> << >>, nil |-> TRUE, err |-> NoErr]

Init ==
    /\ Long = << >>
    /\ Short = << >>
    /\ hasValue = [o \in OptIds |-> OptHasValue(o)]
    /\ seen = [o \in OptIds |-> FALSE]
    /\ rawValue = [o \in OptIds |-> EmptyStr]
    /\ dest = [o \in OptIds |-> DestInit(o)]
    /\ addErr = NoErr
    /\ addLast = Nil
    /\ addBefore = [Long |-> << >>, Short |-> << >>]
    /\ pc = "idle"
    /\ argv = << >>
    /\ pos = 0
    /\ ret = NoRet
    /\ arg = EmptyStr
    /\ opt = Nil
    /\ turns = 0
    /\ start = 0
    /\ calls = << >>
    /\ parses = 0
    /\ argvIn = << >>
    /\ pre = [seen |-> seen, rawValue |-> rawValue, dest |-> dest]
    /\ last = [seen |-> seen, rawValue |-> rawValue]
    /\ prev = [valid |-> FALSE, reset |-> FALSE, seen |-> seen,
               rawValue |-> rawValue, ret |-> NoRet]
    /\ mode = "none"
    /\ resetSince = FALSE

(***************************************************************************)
(* Options.Add.                                                            *)
(***************************************************************************)
\* the registry and the option fields Add works on
Registry == [Long |-> Long, Short |-> Short, hasValue |-> hasValue,
             seen |-> seen, rawValue |-> rawValue, err |-> NoErr,
             last |-> Nil, before |-> [Long |-> Long, Short |-> Short]]

\* (mutation: the short name is entered without looking for a duplicate)
AddOneOverwriting(r, o) ==
    LET r0 == [r EXCEPT !.last = o,
                        !.before = [Long |-> r.Long, Short |-> r.Short]]
        long  == OptLong(o)
        short == OptShort(o)
    IN  IF long = EmptyStr /\ short = EmptyStr
        THEN [r0 EXCEPT !.err = [kind |-> ErrShortAndLongEmpty, detail |-> EmptyStr]]
        ELSE IF long # EmptyStr /\ Lookup(r0.Long, long) # Nil
        THEN [r0 EXCEPT !.err = mkErr(ErrDuplicateOption, short)]
        ELSE LET r2 == IF long # EmptyStr
                       THEN [r0 EXCEPT !.Long = Insert(r0.Long, long, o)] ELSE r0
             IN  IF short # EmptyStr /\ Len(short) > 1
                 THEN [r2 EXCEPT !.err = mkErr(ErrShortOptionTooLong, short)]
                 ELSE IF short # EmptyStr
                 THEN [r2 EXCEPT !.Short = Insert(r2.Short, short, o)]
                 ELSE r2

\* one turn of Add's loop, for option o; r.err is set when Add returns early
AddOne(r, o) ==
    LET r0 == [r EXCEPT !.last = o,
                        !.before = [Long |-> r.Long, Short |-> r.Short]]
        r1 == IF RecvKind(o) # "nil"
              THEN [r0 EXCEPT !.hasValue[o] = TRUE] ELSE r0
        long  == OptLong(o)
        short == OptShort(o)
    IN  IF long = EmptyStr /\ short = EmptyStr
        THEN [r1 EXCEPT !.err = [kind |-> ErrShortAndLongEmpty, detail |-> EmptyStr]]
        ELSE IF long # EmptyStr /\ Lookup(r1.Long, long) # Nil
        THEN [r1 EXCEPT !.err = mkErr(ErrDuplicateOption, short)]
        ELSE LET r2 == IF long # EmptyStr
                       THEN [r1 EXCEPT !.Long = Insert(r1.Long, long, o)] ELSE r1
             IN  IF short # EmptyStr /\ Len(short) > 1
                 THEN [r2 EXCEPT !.err = mkErr(ErrShortOptionTooLong, short)]
                 ELSE IF short # EmptyStr /\ Lookup(r2.Short, short) # Nil
                 THEN [r2 EXCEPT !.err = mkErr(ErrDuplicateOption, short)]
                 ELSE LET r3 == IF short # EmptyStr
                                THEN [r2 EXCEPT !.Short = Insert(r2.Short, short, o)]
                                ELSE r2
                      IN  [r3 EXCEPT !.seen[o] = FALSE, !.rawValue[o] = EmptyStr]

\* Add's loop over opts, stopping at the first error
RECURSIVE AddLoop(_, _)
AddLoop(r, opts) ==
    IF opts = << >> THEN r
    ELSE LET r1 == AddOne(r, Head(opts))
         IN  IF r1.err # NoErr THEN r1 ELSE AddLoop(r1, Tail(opts))

\* Options.Add(opts...), traced or not: the trace keeps the option the loop
\* reached last and the maps as that option's turn found them.  The registry
\* is populated before parsing starts.
AddCall(opts, traced) ==
    /\ pc = "idle"
    /\ LET r == AddLoop(Registry, opts)
       IN  /\ Long' = r.Long
           /\ Short' = r.Short
           /\ hasValue' = r.hasValue
           /\ seen' = r.seen
           /\ rawValue' = r.rawValue
           /\ addErr' = r.err
           /\ addLast' = IF traced THEN r.last ELSE addLast
           /\ addBefore' = IF traced THEN r.before ELSE addBefore
    /\ UNCHANGED << dest, pc, argv, pos, ret, arg, opt, turns, start, calls,
                    parses, argvIn, pre, last, prev, mode, resetSince >>

Add(opts) == AddCall(opts, FALSE)

AddTraced(opts) == AddCall(opts, TRUE)

(***************************************************************************)
(* Options.Reset.                                                          *)
(***************************************************************************)
\* the options either map holds
Registered ==
    { Long[k] : k \in DOMAIN Long } \cup { Short[k] : k \in DOMAIN Short }

Reset ==
    /\ pc \in {"idle", "done"}
    /\ seen' = [o \in OptIds |-> IF o \in Registered THEN FALSE ELSE seen[o]]
    /\ rawValue' = [o \in OptIds |->
                      IF o \in Registered THEN EmptyStr ELSE rawValue[o]]
    /\ resetSince' = (pc = "done")
    /\ UNCHANGED << Long, Short, hasValue, dest, addErr, addLast, addBefore, pc,
                    argv, pos, ret,
                    arg, opt, turns, start, calls, parses, argvIn, pre, last,
                    prev, mode >>

(***************************************************************************)
(* Options.Parse.  The state of one call is the record st: the array       *)
(* behind the caller's slice (argv), how far the local slice args has      *)
(* advanced in it (pos), the option fields and receivers Parse writes, the *)
(* handler calls made, and whether and what the call returned.             *)
(***************************************************************************)
ParseState ==
    [argv |-> argv, pos |-> pos, seen |-> seen, rawValue |-> rawValue,
     dest |-> dest, arg |-> arg, opt |-> opt, turns |-> turns,
     start |-> start, calls |-> calls, pc |-> pc, ret |-> ret]

\* the state of a Parse call just started on the array a, the options and
\* receivers being as in p
StartState(a, p) ==
    [argv |-> a, pos |-> 0, seen |-> p.seen, rawValue |-> p.rawValue,
     dest |-> p.dest, arg |-> EmptyStr, opt |-> Nil, turns |-> 0,
     start |-> 0, calls |-> << >>, pc |-> "scan", ret |-> NoRet]

\* the local slice args
Args(st) == SubSeq(st.argv, st.pos + 1, Len(st.argv))

\* args = args[1:]
Advance(st) == [st EXCEPT !.pos = st.pos + 1]

\* args[0] = s: a write into the caller's array
SetHead(st, s) == [st EXCEPT !.argv[st.pos + 1] = s]

\* return args, nil
ReturnArgs(st) ==
    [st EXCEPT !.pc = "done",
               !.ret = [args |-> Args(st), nil |-> FALSE, err |-> NoErr]]

\* (mutation: the error is returned with what is left of args)
ReturnErrWithArgs(st, e) ==
    [st EXCEPT !.pc = "done",
               !.ret = [args |-> Args(st), nil |-> FALSE, err |-> e]]

\* return nil, e
ReturnErr(st, e) ==
    [st EXCEPT !.pc = "done",
               !.ret = [args |-> << >>, nil |-> TRUE, err |-> e]]

\* a run-time panic: the call never returns
Panic(st) == [st EXCEPT !.pc = "panic"]

\* the long form: the option matched (Nil for none) and the state after
MatchLong(st, a) ==
    LET name  == TrimPrefix(a, <<"-", "-">>)
        exact == Lookup(Long, name)
        words == SplitN2(name)
        split == IF Len(words) = 2 THEN Lookup(Long, words[1]) ELSE Nil
    IN  IF exact # Nil THEN [opt |-> exact, st |-> Advance(st)]
        ELSE IF split # Nil /\ hasValue[split]
        THEN [opt |-> split, st |-> SetHead(st, words[2])]
        ELSE [opt |-> Nil, st |-> st]

\* (mutation: the -x=V form is not looked for)
InlineShortValueNoEq(name) == SliceFrom(name, 1)

\* the value of -xV and -x=V, name being what follows the dash
InlineShortValue(name) ==
    IF name[2] = "=" /\ Lookup(Short, <<"=">>) = Nil
    THEN SliceFrom(name, 2)
    ELSE SliceFrom(name, 1)

\* (mutation: the rewrite drops one character too many)
ClusterRestDropped(name) == <<"-">> \o SliceFrom(name, 2)

\* what a clustered token is rewritten to once its first option is taken
ClusterRest(name) == <<"-">> \o SliceFrom(name, 1)

\* the short form, name (not empty) being what follows the dash
MatchShort(st, name) ==
    LET o == Lookup(Short, SubSeq(name, 1, 1))
    IN  IF o = Nil THEN [opt |-> Nil, st |-> st]
        ELSE IF Len(name) > 1
        THEN IF hasValue[o]
             THEN [opt |-> o, st |-> SetHead(st, InlineShortValue(name))]
             ELSE [opt |-> o, st |-> SetHead(st, ClusterRest(name))]
        ELSE [opt |-> o, st |-> Advance(st)]

\* the type switch on opt.ValueReceiver: the value handed on (val, remapped
\* for a *bool), what the receiver holds afterwards, and whether the
\* conversion succeeded
Coerce(kind, val, old) ==
    CASE kind = "bool" ->
           LET r == ParseBool(BoolRemap(val))
           IN  [val |-> BoolRemap(val), dest |-> r.v, ok |-> r.ok]
      [] kind = "string" -> [val |-> val, dest |-> val, ok |-> TRUE]
      [] kind = "int" ->
           LET r == ParseInt(val)
           IN  [val |-> val, dest |-> IF r.ok THEN r.v ELSE old, ok |-> r.ok]
      [] OTHER -> [val |-> val, dest |-> old, ok |-> TRUE]

\* (mutation: the handler's error is wrapped as a ParsingValue error)
DispatchWrapping(st, o, val) ==
    IF HandleKind(o) = "nil" THEN st
    ELSE LET e  == Handle(o, val)
             s1 == [st EXCEPT !.calls = Append(st.calls,
                                  [opt |-> o, val |-> val, err |-> e,
                                   raw |-> st.rawValue[o], turn |-> st.turns])]
         IN  IF e # NoErr THEN ReturnErr(s1, mkErr(ErrParsingValue, val)) ELSE s1

\* the end of a loop turn: run opt.Handle when there is one
Dispatch(st, o, val) ==
    IF HandleKind(o) = "nil" THEN st
    ELSE LET e  == Handle(o, val)
             s1 == [st EXCEPT !.calls = Append(st.calls,
                                  [opt |-> o, val |-> val, err |-> e,
                                   raw |-> st.rawValue[o], turn |-> st.turns])]
         IN  IF e # NoErr THEN ReturnErr(s1, e) ELSE s1

\* (mutation: a token starting with a dash is not taken as a value)
TakeValueSkippingDashes(st, o) ==
    IF hasValue[o] /\ ~HasPrefix(Args(st)[1], <<"-">>)
    THEN [val |-> Args(st)[1], st |-> Advance(st)]
    ELSE [val |-> EmptyStr, st |-> st]

\* the value of a matched option: the head of what is left of args
TakeValue(st, o) ==
    IF hasValue[o]
    THEN [val |-> Args(st)[1], st |-> Advance(st)]
    ELSE [val |-> EmptyStr, st |-> st]

\* a loop turn from the match on: a is the token as it was read, o the
\* option matched and st the state after the match
Matched(st0, o, a) ==
    LET st == [st0 EXCEPT !.opt = o]
    IN
    IF o = Nil THEN ReturnErr(st, mkErr(ErrNoSuchOption, a))
    ELSE IF hasValue[o] /\ Args(st) = << >>
    THEN ReturnErr(st, mkErr(ErrOptionRequiresValue, a))
    ELSE LET t  == TakeValue(st, o)
             s1 == [t.st EXCEPT !.seen[o] = TRUE,
                                !.rawValue[o] =
                                    IF hasValue[o] THEN t.val ELSE @]
             c  == IF hasValue[o]
                   THEN Coerce(RecvKind(o), t.val, s1.dest[o])
                   ELSE [val |-> t.val, dest |-> s1.dest[o], ok |-> TRUE]
             s2 == [s1 EXCEPT !.dest[o] = c.dest]
         IN  IF ~c.ok THEN ReturnErr(s2, mkErr(ErrParsingValue, a))
             ELSE Dispatch(s2, o, c.val)

\* one turn of Parse's loop, the loop test included
Iter(st0) ==
    IF Args(st0) = << >> THEN ReturnArgs(st0)
    ELSE LET a  == Args(st0)[1]
             st == [st0 EXCEPT !.arg = a, !.opt = Nil, !.start = st0.pos,
                               !.turns = st0.turns + 1]
         IN  IF a = <<"-", "-">> THEN ReturnArgs(Advance(st))
             ELSE IF ~HasPrefix(a, <<"-">>) THEN ReturnArgs(st)
             ELSE IF HasPrefix(a, <<"-", "-">>)
             THEN LET m == MatchLong(st, a) IN Matched(m.st, m.opt, a)
             ELSE LET name == TrimPrefix(a, <<"-">>)
                  IN  IF name = EmptyStr THEN Panic(st)
                      ELSE LET m == MatchShort(st, name)
                           IN  Matched(m.st, m.opt, a)

\* a whole Parse call from the state st
RECURSIVE ParseRun(_)
ParseRun(st) == IF st.pc # "scan" THEN st ELSE ParseRun(Iter(st))

(***************************************************************************)
(* The actions of Parse: the call, with the arguments it is given, and     *)
(* each turn of its loop.                                                  *)
(***************************************************************************)
\* Parse is entered on the array a
Enter(a, m) ==
    /\ parses < MaxParses
    /\ parses' = parses + 1
    /\ pc' = "scan"
    /\ argv' = a
    /\ pos' = 0
    /\ ret' = NoRet
    /\ arg' = EmptyStr
    /\ opt' = Nil
    /\ turns' = 0
    /\ start' = 0
    /\ calls' = << >>
    /\ argvIn' = a
    /\ pre' = [seen |-> seen, rawValue |-> rawValue, dest |-> dest]
    /\ mode' = m
    /\ resetSince' = FALSE
    /\ addErr' = NoErr
    /\ UNCHANGED << Long, Short, hasValue, seen, rawValue, dest, last, addLast,
                    addBefore >>

\* the first Parse call, on a new argument sequence
ParseBegin(a) ==
    /\ pc = "idle"
    /\ prev' = prev
    /\ Enter(a, "first")

\* the outcome of the Parse call that has returned
Outcome ==
    [valid |-> TRUE, reset |-> resetSince, seen |-> last.seen,
     rawValue |-> last.rawValue, ret |-> ret]

\* Parse called again, after Reset, with the very slice it was given before
\* ("Use it to run through the option parsing multiple times")
ParseSame ==
    /\ pc = "done"
    /\ resetSince
    /\ prev' = Outcome
    /\ Enter(argv, "same")

\* one turn of the loop
ParseIter ==
    /\ pc = "scan"
    /\ LET st == Iter(ParseState)
       IN  /\ argv' = st.argv
           /\ pos' = st.pos
           /\ seen' = st.seen
           /\ rawValue' = st.rawValue
           /\ dest' = st.dest
           /\ arg' = st.arg
           /\ opt' = st.opt
           /\ turns' = st.turns
           /\ start' = st.start
           /\ calls' = st.calls
           /\ pc' = st.pc
           /\ ret' = st.ret
           /\ last' = IF st.pc = "done"
                      THEN [seen |-> st.seen, rawValue |-> st.rawValue]
                      ELSE last
    /\ UNCHANGED << Long, Short, hasValue, addErr, addLast, addBefore, parses,
                    argvIn, pre, prev,
                    mode, resetSince >>

Next ==
    \/ \E opts \in OptSeqs(MaxAddOpts) : Add(opts)
    \/ Reset
    \/ \E a \in ArgSeqs : ParseBegin(a)
    \/ ParseSame
    \/ ParseIter

Spec == Init /\ [][Next]_vars

\* the registration calls alone, each traced
AddNext == \E opts \in OptSeqs(MaxAddOpts) : AddTraced(opts)

AddSpec == Init /\ [][AddNext]_vars

(***************************************************************************)
(* Properties.                                                             *)
(***************************************************************************)
Returned == pc = "done"
Succeeded == pc = "done" /\ ret.err = NoErr
Failed == pc = "done" /\ ret.err # NoErr

\* C1: when Parse succeeds the residual is the tail of the input that starts
\* at the first token reached that does not start with "-", or right after an
\* input token equal to "--", or is empty when every token was consumed.
C1_ResidualStartsAtStop ==
    Succeeded =>
        /\ ~ret.nil
        /\ ret.args = SubSeq(argvIn, pos + 1, Len(argvIn))
        /\ \/ pos = Len(argvIn)
           \/ (pos < Len(argvIn) /\ ~HasPrefix(argvIn[pos + 1], <<"-">>))
           \/ (pos >= 1 /\ argvIn[pos] = <<"-", "-">>)

\* C2: a loop turn that reads the bare token "-" makes Parse return a
\* NoSuchOption error with a nil residual.
C2_BareDashIsNoSuchOption ==
    (turns >= 1 /\ arg = <<"-">>) =>
        /\ pc = "done"
        /\ ret.err.kind = ErrNoSuchOption
        /\ ret.nil

\* C3: Parse, Reset, then Parse again on the very same slice gives the same
\* seen flags, the same rawValue strings, the same residual and the same
\* error as the first call.
C3_ParseResetParseSame ==
    (Returned /\ mode = "same" /\ prev.valid /\ prev.reset) =>
        /\ last.seen = prev.seen
        /\ last.rawValue = prev.rawValue
        /\ ret = prev.ret

\* C4: when Parse returns an error the receivers hold what they held when
\* Parse was called; stated for the receiver of the option whose conversion
\* failed.
C4_ReceiverKeptOnFailedConversion ==
    (Failed /\ ret.err.kind = ErrParsingValue) => dest[opt] = pre.dest[opt]

\* C5: a handler is called at most once in a loop turn, with the string the
\* option's rawValue holds (empty for an option without a value), and not at
\* all in a turn whose conversion failed.
C5_HandlerGetsRawValue ==
    /\ \A i \in 1..Len(calls) :
         /\ calls[i].val = calls[i].raw
         /\ ~hasValue[calls[i].opt] => calls[i].val = EmptyStr
         /\ \A j \in 1..Len(calls) : calls[j].turn = calls[i].turn => j = i
    /\ (Failed /\ ret.err.kind = ErrParsingValue) =>
         \A i \in 1..Len(calls) : calls[i].turn < turns

\* C6: when a handler returns an error, Parse returns that very error with a
\* nil residual, and nothing after the turn that called the handler happens:
\* the failing call is the last one, made in the last turn.
C6_HandlerErrorVerbatim ==
    \A i \in 1..Len(calls) :
        calls[i].err # NoErr =>
            /\ pc = "done"
            /\ ret.err = calls[i].err
            /\ ret.err.kind \notin LibraryKinds
            /\ ret.nil
            /\ ret.args = << >>
            /\ i = Len(calls)
            /\ calls[i].turn = turns

C6_Witness ==
    /\ pc = "done"
    /\ calls # << >>
    /\ calls[Len(calls)].err = ErrEven
    /\ ret.err = ErrEven
    /\ pos < Len(argv)
    /\ argv[pos + 1] = <<"-", "v">>
    /\ Lookup(Short, <<"v">>) = "oV"
    /\ ~seen["oV"]

(***************************************************************************)
(* Comparing a Parse call with the call on another argument sequence, made *)
(* from the same options and receivers (pre).                              *)
(***************************************************************************)
\* the handler calls without their turn numbers
CallsOf(st) ==
    [i \in 1..Len(st.calls) |->
        [opt |-> st.calls[i].opt, val |-> st.calls[i].val,
         err |-> st.calls[i].err]]

\* what C7 compares: seen flags, handler calls, residual, success or error kind
ClusterView(st) ==
    [seen |-> st.seen, calls |-> CallsOf(st), args |-> st.ret.args,
     nil |-> st.ret.nil, kind |-> st.ret.err.kind, pc |-> st.pc]

\* what C8 compares: rawValue, receivers, residual, success or error kind
ValueView(st) ==
    [rawValue |-> st.rawValue, dest |-> st.dest, seen |-> st.seen,
     args |-> st.ret.args, nil |-> st.ret.nil, kind |-> st.ret.err.kind,
     pc |-> st.pc]

\* the call on the tokens ts followed by all but the first token given
Instead(ts) == ParseRun(StartState(ts \o Tail(argvIn), pre))

\* Parse has ended on a sequence that is not empty, and the options are as it
\* left them
Ended == pc \in {"done", "panic"} /\ ~resetSince /\ argvIn # << >>

\* t is a dash followed by registered short options without a value
IsCluster(t, dashToo) ==
    /\ Len(t) >= 2
    /\ t[1] = "-"
    /\ \A i \in 2..Len(t) :
         /\ Lookup(Short, <<t[i]>>) # Nil
         /\ ~hasValue[Lookup(Short, <<t[i]>>)]
         /\ dashToo \/ t[i] # "-"

\* -c1 -c2 ... -cn for the cluster -c1c2...cn
Separate(t) == [i \in 1..(Len(t) - 1) |-> <<"-", t[i + 1]>>]

ClusterAsSeparate(dashToo) ==
    (Ended /\ IsCluster(argvIn[1], dashToo)) =>
        ClusterView(ParseState) = ClusterView(Instead(Separate(argvIn[1])))

\* C7 as claimed: a cluster of any registered short options without a value
\* parses as the separate tokens do.
C7_ClusterAsSeparate_AnyOption == ClusterAsSeparate(TRUE)

\* C7: a cluster of registered short options without a value, none of them
\* the dash, gives the same seen flags, handler calls, residual and success
\* or error kind as the separate tokens.
C7_ClusterAsSeparate == ClusterAsSeparate(FALSE)

C7_Witness ==
    /\ Succeeded
    /\ ~resetSince
    /\ argvIn # << >>
    /\ argvIn[1] = <<"-", "v", "v">>
    /\ IsCluster(argvIn[1], FALSE)
    /\ Len(calls) >= 2
    /\ pos = Len(argv)
    /\ Len(argv) = MaxArgs

\* the two-token forms of the inline token t: for a registered option with a
\* value and long name L, --L=V (L=V not a long name itself) stands for
\* --L V; for one with short name x, -xV stands for -x V, V losing a leading
\* "=" when "=" is no short option.  strict leaves out the long names that
\* hold a "=" and the short name "-".
TwoTokenForms(t, strict) ==
    { << <<"-", "-">> \o OptLong(o), SliceFrom(t, Len(OptLong(o)) + 3) >> :
        o \in { x \in OptIds :
                  /\ hasValue[x]
                  /\ OptLong(x) # EmptyStr
                  /\ Lookup(Long, OptLong(x)) = x
                  /\ HasPrefix(t, <<"-", "-">> \o OptLong(x) \o <<"=">>)
                  /\ Lookup(Long, SliceFrom(t, 2)) = Nil
                  /\ ~strict \/ IndexEq(OptLong(x), 1) = 0 } }
    \cup
    { << <<"-">> \o OptShort(o),
         IF t[3] = "=" /\ Lookup(Short, <<"=">>) = Nil
         THEN SliceFrom(t, 3) ELSE SliceFrom(t, 2) >> :
        o \in { x \in OptIds :
                  /\ hasValue[x]
                  /\ OptShort(x) # EmptyStr
                  /\ Lookup(Short, OptShort(x)) = x
                  /\ Len(t) >= 3
                  /\ HasPrefix(t, <<"-">> \o OptShort(x))
                  /\ ~strict \/ OptShort(x) # <<"-">> } }

InlineAsTwoTokens(strict) ==
    Ended =>
        \A ts \in TwoTokenForms(argvIn[1], strict) :
            ValueView(ParseState) = ValueView(Instead(ts))

\* C8 as claimed: every inline form of a registered option with a value gives
\* what the two-token form gives.
C8_InlineAsTwoTokens_AnyName == InlineAsTwoTokens(FALSE)

\* C8: for a registered option with a value whose long name holds no "=" and
\* whose short name is not "-", the inline forms --name=V, -xV and -x=V give
\* the same rawValue, receivers, residual and success or error kind as the
\* two-token form; -x=V stands for the value =V when "=" is a short option.
C8_InlineAsTwoTokens == InlineAsTwoTokens(TRUE)

C8_Witness ==
    /\ Succeeded
    /\ ~resetSince
    /\ argvIn # << >>
    /\ argvIn[1] = <<"-", "x", "=", "4">>
    /\ TwoTokenForms(argvIn[1], TRUE) = { << <<"-", "x">>, <<"4">> >> }
    /\ rawValue["oX"] = <<"4">>
    /\ dest["oX"] = 4
    /\ pos = 1

\* the latest turn matched an option with a value by a token that holds no
\* inline value
MatchedWithoutInline ==
    /\ turns >= 1
    /\ ~resetSince
    /\ opt # Nil
    /\ hasValue[opt]
    /\ \/ HasPrefix(arg, <<"-", "-">>) /\ Lookup(Long, SliceFrom(arg, 2)) = opt
       \/ Len(arg) = 2 /\ arg[1] = "-" /\ arg[2] # "-"
            /\ Lookup(Short, <<arg[2]>>) = opt

\* C9: an option with a value matched without an inline value takes the next
\* input token, whatever it is, as its raw value, and the scan goes on after
\* that token; with no next token Parse fails with OptionRequiresValue and a
\* nil residual.
C9_NextTokenIsValue ==
    MatchedWithoutInline =>
        /\ argv[start + 1] = arg
        /\ IF start + 2 <= Len(argv)
           THEN /\ pos = start + 2
                /\ rawValue[opt] = argvIn[start + 2]
                /\ argv[start + 2] = argvIn[start + 2]
                /\ seen[opt]
                /\ ret.err.kind # ErrOptionRequiresValue
                /\ Succeeded => ret.args = SubSeq(argvIn, pos + 1, Len(argvIn))
           ELSE /\ pc = "done"
                /\ ret.err = mkErr(ErrOptionRequiresValue, arg)
                /\ ret.nil
                /\ ret.args = << >>

C9_Witness ==
    /\ MatchedWithoutInline
    /\ start = 0
    /\ pos = 2
    /\ argvIn[pos] = <<"-", "-">>
    /\ rawValue[opt] = <<"-", "-">>
    /\ arg = <<"-", "x">>

\* the token a names no registered option: --name with neither name nor what
\* precedes its "=" a long name, or -c with c no short name
NamesNoOption(a) ==
    \/ /\ HasPrefix(a, <<"-", "-">>)
       /\ Len(a) > 2
       /\ Lookup(Long, SliceFrom(a, 2)) = Nil
       /\ Lookup(Long, SplitN2(SliceFrom(a, 2))[1]) = Nil
    \/ /\ Len(a) = 2
       /\ a[1] = "-"
       /\ a[2] # "-"
       /\ Lookup(Short, <<a[2]>>) = Nil

\* C10: whenever Parse returns an error the residual is nil, and a turn that
\* reads a token naming no registered option returns NoSuchOption.
C10_ErrorMeansNilResidual ==
    /\ Failed => (ret.nil /\ ret.args = << >>)
    /\ (turns >= 1 /\ NamesNoOption(arg)) =>
         (pc = "done" /\ ret.err = mkErr(ErrNoSuchOption, arg) /\ ret.nil)

C10_Witness ==
    /\ Failed
    /\ arg = <<"-", "-", "z">>
    /\ ret.err.kind = ErrNoSuchOption
    /\ ret.nil
    /\ pos = 0
    /\ Len(argv) = MaxArgs

\* C13: when Parse has returned, with or without an error, every element of
\* the argument sequence the caller passed is what it was when Parse was
\* called.
C13_ArgsUntouched ==
    Returned => argv = argvIn

\* the latest loop turn read what an earlier turn of the same call left of a
\* cluster, not a token of the input
ReadClusterRest ==
    /\ pc \in {"scan", "done", "panic"}
    /\ turns > 0
    /\ arg # argvIn[start + 1]

\* C14: with "-" not a registered short option, a loop turn that reads the
\* remainder of a cluster starting with a dash resolves that dash through the
\* short map alone: Parse returns NoSuchOption; the remainder neither ends
\* the scan as the terminator nor selects a long option.
C14_ClusterRestStaysShort ==
    ( /\ ReadClusterRest
      /\ HasPrefix(arg, <<"-", "-">>)
      /\ Lookup(Short, <<"-">>) = Nil )
    => ( /\ Failed
         /\ ret.err.kind = ErrNoSuchOption
         /\ opt = Nil )

\* C16: every loop turn that read a token either made Parse return, or
\* removed at least one token from what is left of the arguments, or left
\* the same tokens with a strictly shorter head; so Parse returns after
\* finitely many turns.
C16_TurnReturnsOrShrinks ==
    (pc \in {"scan", "done", "panic"} /\ turns > 0)
    => \/ pc = "done"
       \/ pc = "scan" /\ pos > start
       \/ pc = "scan" /\ pos = start /\ Len(argv[pos + 1]) < Len(arg)

(***************************************************************************)
(* Registration, under AddSpec: addLast is the option at which the latest  *)
(* Add call stopped (the failing one, or the last one given), addBefore    *)
(* the maps as that option's loop turn found them.                         *)
(***************************************************************************)
LongTaken(o) ==
    OptLong(o) # EmptyStr /\ Lookup(addBefore.Long, OptLong(o)) # Nil

ShortTaken(o) ==
    OptShort(o) # EmptyStr /\ Lookup(addBefore.Short, OptShort(o)) # Nil

\* m holds every entry of m0, unchanged
Keeps(m, m0) == \A k \in DOMAIN m0 : k \in DOMAIN m /\ m[k] = m0[k]

\* C11: Add fails with DuplicateOption when the option's non-empty long
\* name is already in the long map or its short name is already in the short
\* map (entered by an earlier call or earlier in the same call), fails with
\* ShortAndLongEmpty when the option has neither name, and never replaces an
\* entry of either map.
C11_AddRejectsDuplicates ==
    addLast # Nil =>
        /\ (LongTaken(addLast) \/ ShortTaken(addLast))
               => addErr.kind = ErrDuplicateOption
        /\ (OptLong(addLast) = EmptyStr /\ OptShort(addLast) = EmptyStr)
               => addErr.kind = ErrShortAndLongEmpty
        /\ Keeps(Long, addBefore.Long)
        /\ Keeps(Short, addBefore.Short)

\* an Add call rejected an option whose short name another option, entered
\* earlier in the same call or before it, already holds
C11_Witness ==
    /\ addLast # Nil
    /\ addErr.kind = ErrDuplicateOption
    /\ ~LongTaken(addLast)
    /\ ShortTaken(addLast)
    /\ Lookup(addBefore.Short, OptShort(addLast)) # addLast
    /\ Lookup(Short, OptShort(addLast)) = Lookup(addBefore.Short, OptShort(addLast))

\* the bytes of UTF-8 that continue a character
ContinuationBytes == {"0x93"}

\* the characters of a string
RuneCount(s) == Cardinality({ i \in 1..Len(s) : s[i] \notin ContinuationBytes })

\* C12: an option whose short form is one character of more than one byte,
\* and whose names are not taken, is registered by Add: Add returns no error
\* and the short map holds the option under that character.
C12_NonAsciiShortRegisters ==
    ( /\ addLast # Nil
      /\ RuneCount(OptShort(addLast)) = 1
      /\ Len(OptShort(addLast)) > 1
      /\ ~LongTaken(addLast)
      /\ ~ShortTaken(addLast) )
    => ( /\ addErr = NoErr
         /\ Lookup(Short, OptShort(addLast)) = addLast )

\* C15: after an Add call that failed, the two maps are as the failing
\* option's loop turn found them: what they held before the call and the
\* entries of the options before the failing one, nothing of the failing
\* option and nothing of a later one.
C15_FailedAddKeepsOnlyEarlierOptions ==
    (addLast # Nil /\ addErr # NoErr)
        => (Long = addBefore.Long /\ Short = addBefore.Short)
====
